---- MODULE Spec2Model ----
(***************************************************************************)
(* Model of the TodoMatrix component (src/features/todo-matrix.tsx), the   *)
(* add modal (src/components/add-todo-modal.tsx) and the edit modal        *)
(* (EditTodoModal, src/unnamed/part_000).                                  *)
(*                                                                         *)
(* JavaScript objects that the code mutates in place or shares between     *)
(* snapshots live in a heap:                                               *)
(*   arrays : the Todo[] arrays (section.todos), address -> sequence of    *)
(*            Todo object addresses                                        *)
(*   objs   : the Todo objects, address -> record                          *)
(* Section objects and the outer TodoSection[] arrays are never mutated    *)
(* by the code after creation, so they are values: a section is the record *)
(* [id, todos] with todos the address of its array (title and color are    *)
(* display constants no handler reads).                                    *)
(***************************************************************************)
EXTENDS Integers, Sequences, FiniteSets, TLC

VARIABLES
  arrays,        \* heap of Todo[] arrays
  objs,          \* heap of Todo objects
  state,         \* the value React holds for useState(initialSections), line 47
  sections,      \* `sections` as bound in the current render: what the
                 \* handlers close over
  nextId,        \* the id generator: ids handed out so far + 1
  last,          \* the handler call of the event being processed: its
                 \* arguments and outcome ("none" between events)
  prevView,      \* what `sections` contained when that handler was called
  calls,         \* the number of handler calls so far
  held,          \* what the value React held contained when that handler
                 \* was called
  origin,        \* the call of the event before, and the partition it was
                 \* called on (recorded by RenderKeeping only)
  editingTodo,   \* the state `editingTodo` (line 53): a Todo object or null
  isEditModalOpen, \* the state `isEditModalOpen` (line 51)
  editText       \* the state `text` of EditTodoModal (part_000 line 70)

vars == <<arrays, objs, state, sections, nextId, last, prevView, calls,
          held, origin, editingTodo, isEditModalOpen, editText>>

(***************************************************************************)
(* Bounds                                                                  *)
(***************************************************************************)
MaxTodos == 3      \* ids the generator hands out
MaxIndex == 2      \* largest index a drag result carries
MaxCalls == 3      \* handler calls in one behaviour

(***************************************************************************)
(* Types (src/types/todo.ts)                                               *)
(***************************************************************************)
TodoPriority == {"DO_FIRST", "DO_LATER", "DELEGATE", "ELIMINATE"}

NoTodo == 0        \* `undefined`: what destructuring an empty array yields;
                   \* also `null`, the initial editingTodo

\* Strings are sequences of characters, so that trim() is computed.
Texts == { <<" ">>, <<"a">>, <<" ", "b">> }

TodoIds == 1..(MaxTodos + 1)   \* MaxTodos + 1 is never handed out

(***************************************************************************)
(* Sequence helpers                                                        *)
(***************************************************************************)
Range(s) == { s[i] : i \in 1..Len(s) }

RECURSIVE Dedup(_)
Dedup(s) ==
  IF s = <<>> THEN <<>>
  ELSE LET r == Dedup(SubSeq(s, 1, Len(s) - 1))
           x == s[Len(s)]
       IN IF x \in Range(r) THEN r ELSE Append(r, x)

RECURSIVE Flatten(_)
Flatten(ss) ==
  IF ss = <<>> THEN <<>> ELSE Head(ss) \o Flatten(Tail(ss))

IndexOf(s, x) == CHOOSE i \in 1..Len(s) : s[i] = x

Max(a, b) == IF a > b THEN a ELSE b
Min(a, b) == IF a < b THEN a ELSE b

\* String.prototype.trim
RECURSIVE TrimStart(_)
TrimStart(s) ==
  IF s # <<>> /\ Head(s) = " " THEN TrimStart(Tail(s)) ELSE s

RECURSIVE TrimEnd(_)
TrimEnd(s) ==
  IF s # <<>> /\ s[Len(s)] = " " THEN TrimEnd(SubSeq(s, 1, Len(s) - 1)) ELSE s

trim(s) == TrimEnd(TrimStart(s))

\* a string is truthy iff it is not empty
Truthy(s) == s # <<>>

(***************************************************************************)
(* Array.prototype.splice(start, deleteCount, ...items), ECMAScript        *)
(* semantics: a negative start counts from the end, start and deleteCount  *)
(* are clamped to the array.                                               *)
(***************************************************************************)
ActualStart(len, start) ==
  IF start < 0 THEN Max(len + start, 0) ELSE Min(start, len)

\* splice that ignores start and always takes from the front
SpliceRemoved_front(a, start, deleteCount) ==
  SubSeq(a, 1, Min(Max(deleteCount, 0), Len(a)))

\* the elements splice(start, deleteCount) returns
SpliceRemoved(a, start, deleteCount) ==
  LET s == ActualStart(Len(a), start)
      n == Min(Max(deleteCount, 0), Len(a) - s)
  IN SubSeq(a, s + 1, s + n)

\* splice that forgets to insert the items
SpliceResult_noInsert(a, start, deleteCount, items) ==
  LET s == ActualStart(Len(a), start)
      n == Min(Max(deleteCount, 0), Len(a) - s)
  IN SubSeq(a, 1, s) \o SubSeq(a, s + n + 1, Len(a))

\* push in place of an insertion at start
SpliceResult_atEnd(a, start, deleteCount, items) ==
  LET s == ActualStart(Len(a), start)
      n == Min(Max(deleteCount, 0), Len(a) - s)
  IN SubSeq(a, 1, s) \o SubSeq(a, s + n + 1, Len(a)) \o items

\* slice in place of splice: nothing is deleted
SpliceResult_noDelete(a, start, deleteCount, items) ==
  LET s == ActualStart(Len(a), start)
  IN SubSeq(a, 1, s) \o items \o SubSeq(a, s + 1, Len(a))

\* the array after splice(start, deleteCount, ...items)
SpliceResult(a, start, deleteCount, items) ==
  LET s == ActualStart(Len(a), start)
      n == Min(Max(deleteCount, 0), Len(a) - s)
  IN SubSeq(a, 1, s) \o items \o SubSeq(a, s + n + 1, Len(a))

(***************************************************************************)
(* initialSections (module-level constant): four section objects whose     *)
(* todos arrays are the heap arrays 1..4.                                  *)
(***************************************************************************)
initialSections ==
  << [id |-> "DO_FIRST",  todos |-> 1],
     [id |-> "DO_LATER",  todos |-> 2],
     [id |-> "DELEGATE",  todos |-> 3],
     [id |-> "ELIMINATE", todos |-> 4] >>

\* The contents of a TodoSection[] in the heap (A, O): what a reader of the
\* snapshot sees.
View(A, O, S) ==
  [i \in 1..Len(S) |->
     [id    |-> S[i].id,
      todos |-> [k \in 1..Len(A[S[i].todos]) |-> O[A[S[i].todos][k]]]]]

(***************************************************************************)
(* Objects no reference leads to are garbage.  The references the program  *)
(* holds are initialSections, the React state, the `sections` of the       *)
(* current render and editingTodo.  Addresses are opaque, so the live      *)
(* objects are renumbered in the order they are met from these roots.      *)
(***************************************************************************)
Collect(A, O, S, P, E) ==
  LET liveArr == Dedup([i \in 1..Len(initialSections) |-> initialSections[i].todos]
                       \o [i \in 1..Len(S) |-> S[i].todos]
                       \o [i \in 1..Len(P) |-> P[i].todos])
      liveObj == Dedup(Flatten([i \in 1..Len(liveArr) |-> A[liveArr[i]]])
                       \o (IF E = NoTodo THEN <<>> ELSE <<E>>))
      newObjs == [k \in 1..Len(liveObj) |-> O[liveObj[k]]]
      newArrs == [i \in 1..Len(liveArr) |->
                    [k \in 1..Len(A[liveArr[i]]) |-> IndexOf(liveObj, A[liveArr[i]][k])]]
      Reloc(T) == [i \in 1..Len(T) |-> [T[i] EXCEPT !.todos = IndexOf(liveArr, T[i].todos)]]
  IN [arrays |-> newArrs, objs |-> newObjs, state |-> Reloc(S), sections |-> Reloc(P),
      editingTodo |-> IF E = NoTodo THEN NoTodo ELSE IndexOf(liveObj, E),
      moved |-> [a \in 1..Len(O) |-> IF a \in Range(liveObj) THEN IndexOf(liveObj, a) ELSE NoTodo]]

\* The handler has run and left the heap (A, O); S is the value React now
\* holds (the argument of setSections, or the old state when setSections was
\* not reached); l describes the call.  The render's `sections` is not
\* rebound until React renders again.
CommitCore(A, O, S, l) ==
  LET c == Collect(A, O, S, sections, editingTodo)
  IN /\ arrays' = c.arrays
     /\ objs' = c.objs
     /\ state' = c.state
     /\ sections' = c.sections
     /\ editingTodo' = c.editingTodo
     /\ prevView' = View(arrays, objs, sections)
     /\ held' = View(arrays, objs, state)
     /\ last' = l
     /\ calls' = calls + 1
     /\ origin' = origin

\* a handler of TodoMatrix that leaves the edit modal alone
Commit(A, O, S, l) ==
  /\ CommitCore(A, O, S, l)
  /\ UNCHANGED <<isEditModalOpen, editText>>

NoDestination == [present |-> FALSE, droppableId |-> "NONE", index |-> 0]

NoResult ==
  [source |-> [droppableId |-> "NONE", index |-> 0], destination |-> NoDestination]

NoCall ==
  [op |-> "none", modal |-> FALSE, text |-> <<>>, id |-> 0,
   result |-> NoResult, error |-> "none"]

\* no event before this one is remembered
NoOrigin ==
  [call |-> NoCall,
   view |-> View(<< <<>>, <<>>, <<>>, <<>> >>, <<>>, initialSections)]

\* No event is being processed: a handler runs to completion, and React
\* renders, before the next event is handled.
Idle == last.op = "none" /\ calls < MaxCalls

(***************************************************************************)
(* handleAddTodo (lines 62-77)                                             *)
(***************************************************************************)
\* a generator that repeats an id
newTodo_sameId(id, text) ==
  [id |-> 1, text |-> text, completed |-> FALSE, priority |-> "DO_FIRST"]

\* a handler that stores the trimmed text
newTodo_trimmed(id, text) ==
  [id |-> id, text |-> trim(text), completed |-> FALSE, priority |-> "DO_FIRST"]

\* the object literal of lines 63-68
newTodo(id, text) ==
  [id |-> id, text |-> text, completed |-> FALSE, priority |-> "DO_FIRST"]

\* [newTodo, ...section.todos]
SpreadAppend_prepend(todos, t) == <<t>> \o todos

\* [...section.todos, newTodo]
SpreadAppend(todos, t) == todos \o <<t>>

\* the value passed to setSections by handleAddTodo, with the heap it lives in
AddTodoState(text) ==
  LET o == Len(objs) + 1
      a == Len(arrays) + 1
      O == Append(objs, newTodo(nextId, text))
      hit == { i \in 1..Len(sections) : sections[i].id = "DO_FIRST" }
      \* a matching section gets a fresh object and a fresh array
      A == IF hit = {} THEN arrays
           ELSE Append(arrays, SpreadAppend(arrays[sections[CHOOSE i \in hit : TRUE].todos], o))
      S == [i \in 1..Len(sections) |->
              IF sections[i].id = "DO_FIRST"
              THEN [sections[i] EXCEPT !.todos = a]
              ELSE sections[i]]
  IN [arrays |-> A, objs |-> O, sections |-> S]

\* crypto.randomUUID() never repeats an id: the generator is a counter
AddTodoCall(text, modal) ==
  /\ nextId <= MaxTodos
  /\ LET r == AddTodoState(text)
     IN Commit(r.arrays, r.objs, r.sections,
               [NoCall EXCEPT !.op = "add", !.modal = modal, !.text = text, !.id = nextId])
  /\ nextId' = nextId + 1

handleAddTodo(text) ==
  /\ Idle
  /\ AddTodoCall(text, FALSE)

(***************************************************************************)
(* AddTodoModal.handleSubmit (add-todo-modal.tsx lines 66-76): the form is *)
(* submitted with `text` in the input field.                               *)
(***************************************************************************)
AddTodoModal_handleSubmit(text) ==
  /\ Idle
  /\ IF Truthy(trim(text))
     THEN AddTodoCall(text, TRUE)
     ELSE /\ Commit(arrays, objs, state,
                    [NoCall EXCEPT !.op = "submit", !.modal = TRUE, !.text = text])
          /\ nextId' = nextId

(***************************************************************************)
(* sections.map(section => ({...section, todos: section.todos.map(todo =>  *)
(*   todo.id === todoId ? upd(todo) : todo)})), the shape of               *)
(* handleToggleTodo and handleUpdateTodo: every section and every todos    *)
(* array is a fresh object, every matching todo is a fresh object, the     *)
(* others are shared.  upd[a] is the replacement for the Todo object a.    *)
(***************************************************************************)
\* a map that replaces every todo, whatever its id
MapTodos_all(todoId, upd) ==
  LET n == Len(sections)
      flat == Flatten([i \in 1..n |-> arrays[sections[i].todos]])
      offset(i) == Len(Flatten([m \in 1..(i - 1) |-> arrays[sections[m].todos]]))
      O == objs \o [j \in 1..Len(flat) |-> upd[flat[j]]]
      A == arrays \o
           [i \in 1..n |->
              [k \in 1..Len(arrays[sections[i].todos]) |-> Len(objs) + offset(i) + k]]
      S == [i \in 1..n |-> [sections[i] EXCEPT !.todos = Len(arrays) + i]]
  IN [arrays |-> A, objs |-> O, sections |-> S]

MapTodos(todoId, upd) ==
  LET n == Len(sections)
      flat == Flatten([i \in 1..n |-> arrays[sections[i].todos]])
      offset(i) == Len(Flatten([m \in 1..(i - 1) |-> arrays[sections[m].todos]]))
      hits == { j \in 1..Len(flat) : objs[flat[j]].id = todoId }
      rank(j) == Cardinality({ h \in hits : h <= j })
      slot(r) == CHOOSE j \in hits : rank(j) = r
      O == objs \o [r \in 1..Cardinality(hits) |-> upd[flat[slot(r)]]]
      A == arrays \o
           [i \in 1..n |->
              [k \in 1..Len(arrays[sections[i].todos]) |->
                 IF (offset(i) + k) \in hits
                 THEN Len(objs) + rank(offset(i) + k)
                 ELSE arrays[sections[i].todos][k]]]
      S == [i \in 1..n |-> [sections[i] EXCEPT !.todos = Len(arrays) + i]]
  IN [arrays |-> A, objs |-> O, sections |-> S]

(***************************************************************************)
(* handleToggleTodo (lines 84-93)                                          *)
(***************************************************************************)
\* marks the task completed whatever it was
ToggleCompleted_set(todo) == [todo EXCEPT !.completed = TRUE]

\* { ...todo, completed: !todo.completed }
ToggleCompleted(todo) == [todo EXCEPT !.completed = ~todo.completed]

handleToggleTodo(todoId) ==
  /\ Idle
  /\ LET r == MapTodos(todoId, [a \in 1..Len(objs) |-> ToggleCompleted(objs[a])])
     IN Commit(r.arrays, r.objs, r.sections,
               [NoCall EXCEPT !.op = "toggle", !.id = todoId])
  /\ nextId' = nextId

(***************************************************************************)
(* handleDeleteTodo (lines 100-107)                                        *)
(***************************************************************************)
\* shift in place of filter: the bucket of the task loses its first task
DeleteTodoState_shift(todoId) ==
  LET n == Len(sections)
      A == arrays \o
           [i \in 1..n |->
              IF \E k \in 1..Len(arrays[sections[i].todos]) :
                    objs[arrays[sections[i].todos][k]].id = todoId
              THEN Tail(arrays[sections[i].todos])
              ELSE arrays[sections[i].todos]]
      S == [i \in 1..n |-> [sections[i] EXCEPT !.todos = Len(arrays) + i]]
  IN [arrays |-> A, objs |-> objs, sections |-> S]

\* a filter that keeps the task and drops the others
DeleteTodoState_inverted(todoId) ==
  LET n == Len(sections)
      A == arrays \o
           [i \in 1..n |->
              SelectSeq(arrays[sections[i].todos], LAMBDA x : objs[x].id = todoId)]
      S == [i \in 1..n |-> [sections[i] EXCEPT !.todos = Len(arrays) + i]]
  IN [arrays |-> A, objs |-> objs, sections |-> S]

DeleteTodoState(todoId) ==
  LET n == Len(sections)
      A == arrays \o
           [i \in 1..n |->
              SelectSeq(arrays[sections[i].todos], LAMBDA x : objs[x].id # todoId)]
      S == [i \in 1..n |-> [sections[i] EXCEPT !.todos = Len(arrays) + i]]
  IN [arrays |-> A, objs |-> objs, sections |-> S]

handleDeleteTodo(todoId) ==
  /\ Idle
  /\ LET r == DeleteTodoState(todoId)
     IN Commit(r.arrays, r.objs, r.sections,
               [NoCall EXCEPT !.op = "delete", !.id = todoId])
  /\ nextId' = nextId

(***************************************************************************)
(* handleUpdateTodo (lines 125-134)                                        *)
(***************************************************************************)
\* a replacement that also clears the completion flag
ReplaceText_reset(todo, newText) == [todo EXCEPT !.text = newText, !.completed = FALSE]

\* { ...todo, text: newText }
ReplaceText(todo, newText) == [todo EXCEPT !.text = newText]

handleUpdateTodo(id, newText) ==
  /\ Idle
  /\ LET r == MapTodos(id, [a \in 1..Len(objs) |-> ReplaceText(objs[a], newText)])
     IN Commit(r.arrays, r.objs, r.sections,
               [NoCall EXCEPT !.op = "update", !.id = id, !.text = newText])
  /\ nextId' = nextId

(***************************************************************************)
(* onDragEnd (lines 141-158)                                               *)
(***************************************************************************)
\* a lookup that falls back to the first section
Find_orFirst(S, droppableId) ==
  IF \E i \in 1..Len(S) : S[i].id = droppableId
  THEN CHOOSE i \in 1..Len(S) :
         /\ S[i].id = droppableId
         /\ \A j \in 1..(i - 1) : S[j].id # droppableId
  ELSE 1

\* sections.find(section => section.id === droppableId): the position of
\* the first match, 0 for `undefined`
Find(S, droppableId) ==
  IF \E i \in 1..Len(S) : S[i].id = droppableId
  THEN CHOOSE i \in 1..Len(S) :
         /\ S[i].id = droppableId
         /\ \A j \in 1..(i - 1) : S[j].id # droppableId
  ELSE 0

\* a move that forgets line 154
SetPriority_keep(todo, droppableId) == todo

\* movedTodo.priority = result.destination.droppableId
SetPriority(todo, droppableId) == [todo EXCEPT !.priority = droppableId]

\* const [movedTodo] = ...
FirstOf(removed) == IF removed = <<>> THEN NoTodo ELSE removed[1]

\* without the check of line 142 the callback of find reads droppableId of
\* null and throws
onDragEnd_noReturn(result) ==
  /\ Idle
  /\ nextId' = nextId
  /\ LET call == [NoCall EXCEPT !.op = "move", !.result = result]
         s == Find(sections, result.source.droppableId)
         d == Find(sections, result.destination.droppableId)
     IN IF ~result.destination.present
        THEN Commit(arrays, objs, state, [call EXCEPT !.error = "TypeError"])
        ELSE IF s = 0 \/ d = 0
        THEN Commit(arrays, objs, state, call)
        ELSE
          LET sa == sections[s].todos
              da == sections[d].todos
              movedTodo == FirstOf(SpliceRemoved(arrays[sa], result.source.index, 1))
              A1 == [arrays EXCEPT ![sa] = SpliceResult(@, result.source.index, 1, <<>>)]
          IN IF movedTodo = NoTodo
             THEN Commit(A1, objs, state, [call EXCEPT !.error = "TypeError"])
             ELSE
               LET O1 == [objs EXCEPT ![movedTodo] =
                            SetPriority(@, result.destination.droppableId)]
                   A2 == [A1 EXCEPT ![da] =
                            SpliceResult(@, result.destination.index, 0, <<movedTodo>>)]
               IN Commit(A2, O1, sections, call)

onDragEnd(result) ==
  /\ Idle
  /\ nextId' = nextId
  /\ LET call == [NoCall EXCEPT !.op = "move", !.result = result]
         s == Find(sections, result.source.droppableId)
         d == Find(sections, result.destination.droppableId)
     IN IF ~result.destination.present
        THEN Commit(arrays, objs, state, call)
        ELSE IF s = 0 \/ d = 0
        THEN Commit(arrays, objs, state, call)
        ELSE
          LET sa == sections[s].todos
              da == sections[d].todos
              movedTodo == FirstOf(SpliceRemoved(arrays[sa], result.source.index, 1))
              A1 == [arrays EXCEPT ![sa] = SpliceResult(@, result.source.index, 1, <<>>)]
          IN IF movedTodo = NoTodo
             THEN \* line 154 throws: setSections is not reached
                  Commit(A1, objs, state, [call EXCEPT !.error = "TypeError"])
             ELSE
               LET O1 == [objs EXCEPT ![movedTodo] =
                            SetPriority(@, result.destination.droppableId)]
                   A2 == [A1 EXCEPT ![da] =
                            SpliceResult(@, result.destination.index, 0, <<movedTodo>>)]
               IN \* setSections([...sections]): the same section objects
                  Commit(A2, O1, sections, call)

\* the drag results the handler is called with
Sources ==
  [droppableId : TodoPriority, index : (-1)..MaxIndex]
  \cup {[droppableId |-> "UNKNOWN", index |-> 0]}

Destinations ==
  [present : {TRUE}, droppableId : TodoPriority, index : 0..MaxIndex]
  \cup {[present |-> TRUE, droppableId |-> "UNKNOWN", index |-> 0], NoDestination}

(***************************************************************************)
(* The event is over: React renders the component again with the state it  *)
(* holds, and the handlers of the new render close over that value.        *)
(***************************************************************************)
Rerender ==
  /\ last.op # "none"
  /\ LET c == Collect(arrays, objs, state, state, editingTodo)
     IN /\ arrays' = c.arrays
        /\ objs' = c.objs
        /\ state' = c.state
        /\ sections' = c.sections
        /\ editingTodo' = c.editingTodo
        /\ prevView' = View(arrays, objs, state)
        /\ held' = View(arrays, objs, state)
  /\ last' = NoCall
  /\ nextId' = nextId
  /\ calls' = calls
  /\ UNCHANGED <<isEditModalOpen, editText>>

Render ==
  /\ Rerender
  /\ origin' = origin

Init ==
  /\ arrays = << <<>>, <<>>, <<>>, <<>> >>
  /\ objs = <<>>
  /\ state = initialSections
  /\ sections = initialSections
  /\ nextId = 1
  /\ last = NoCall
  /\ prevView = View(arrays, objs, initialSections)
  /\ calls = 0
  /\ held = View(arrays, objs, initialSections)
  /\ origin = NoOrigin
  /\ editingTodo = NoTodo
  /\ isEditModalOpen = FALSE
  /\ editText = <<>>

Next ==
  \/ \E text \in Texts : handleAddTodo(text)
  \/ \E text \in Texts : AddTodoModal_handleSubmit(text)
  \/ \E todoId \in TodoIds : handleToggleTodo(todoId)
  \/ \E todoId \in TodoIds : handleDeleteTodo(todoId)
  \/ \E id \in TodoIds, newText \in Texts : handleUpdateTodo(id, newText)
  \/ \E s \in Sources, d \in Destinations :
        onDragEnd([source |-> s, destination |-> d])
  \/ Render

Spec == Init /\ [][Next]_vars

(***************************************************************************)
(* Two events in a row.  React renders between them as in Spec; what the   *)
(* first of the two was called with, and on which partition, is kept so    *)
(* that the outcome of the second can be compared with where the first     *)
(* started.  The events are the ones the rendered page can send: a click   *)
(* on a task's checkbox or delete button, an add, and a drag from and to a *)
(* position of a bucket.                                                   *)
(***************************************************************************)
RenderKeeping ==
  /\ Rerender
  /\ origin' = [call |-> last, view |-> prevView]

PairTexts == { <<"a">> }

PairEnds == [droppableId : TodoPriority, index : 0..1]

NextPairs ==
  \/ \E text \in PairTexts : handleAddTodo(text)
  \/ \E todoId \in TodoIds : handleToggleTodo(todoId)
  \/ \E todoId \in TodoIds : handleDeleteTodo(todoId)
  \/ \E s \in PairEnds, d \in PairEnds :
        onDragEnd([source |-> s,
                   destination |-> [present |-> TRUE, droppableId |-> d.droppableId,
                                    index |-> d.index]])
  \/ RenderKeeping

SpecPairs == Init /\ [][NextPairs]_vars

(***************************************************************************)
(* The edit modal.  TodoMatrix keeps editingTodo and isEditModalOpen and    *)
(* renders <EditTodoModal open={isEditModalOpen} todo={editingTodo} .../>   *)
(* at all times (lines 212-217), so the `text` state of the modal lives as  *)
(* long as the page.                                                        *)
(***************************************************************************)
\* useEffect(() => { if (todo) setText(todo.text) }, [todo]) (part_000
\* lines 75-79): the effect runs after a render in which the `todo` prop is
\* another object than in the render before (Object.is); the value of
\* `text` once the modal shows `todo`
Prefill(todo) ==
  IF todo # editingTodo /\ todo # NoTodo THEN objs[todo].text ELSE editText

\* the Todo objects the rendered page shows an edit button for
Shown == Range(Flatten([i \in 1..Len(sections) |-> arrays[sections[i].todos]]))

\* the addresses a Todo object can have: the objects of the state, of the
\* rendered snapshot, and editingTodo
TodoObjects == 1..(2 * MaxTodos + 1)

\* handleEditTodo (lines 114-117), called by the edit button of a rendered
\* TodoItem with its Todo object.  The dialog covers the page while it is
\* open (part_000 line 95), so the button is clicked while it is closed.
handleEditTodo(todo) ==
  /\ Idle
  /\ ~isEditModalOpen
  /\ todo \in Shown
  /\ LET c == Collect(arrays, objs, state, sections, todo)
     IN /\ arrays' = c.arrays
        /\ objs' = c.objs
        /\ state' = c.state
        /\ sections' = c.sections
        /\ editingTodo' = c.editingTodo
  /\ isEditModalOpen' = TRUE
  /\ editText' = Prefill(todo)
  /\ prevView' = View(arrays, objs, sections)
  /\ held' = View(arrays, objs, state)
  /\ last' = [NoCall EXCEPT !.op = "edit", !.id = objs[todo].id]
  /\ calls' = calls + 1
  /\ UNCHANGED <<nextId, origin>>

\* what the user can leave in the input field
EditValues == Texts \cup { <<>> }

\* onChange={(e) => setText(e.target.value)} (part_000 line 104)
EditTodoModal_setText(value) ==
  /\ last.op = "none"
  /\ isEditModalOpen
  /\ editText' = value
  /\ UNCHANGED <<arrays, objs, state, sections, nextId, last, prevView, calls,
                 held, origin, editingTodo, isEditModalOpen>>

\* onClose = () => setIsEditModalOpen(false) (line 214), called by Cancel
\* (part_000 line 109) and by the dialog (line 95)
EditTodoModal_onClose ==
  /\ last.op = "none"
  /\ isEditModalOpen
  /\ isEditModalOpen' = FALSE
  /\ UNCHANGED <<arrays, objs, state, sections, nextId, last, prevView, calls,
                 held, origin, editingTodo, editText>>

\* EditTodoModal.handleSubmit (part_000 lines 86-92)
EditTodoModal_handleSubmit ==
  /\ Idle
  /\ isEditModalOpen
  /\ nextId' = nextId
  /\ origin' = origin
  /\ editText' = editText
  /\ IF Truthy(trim(editText)) /\ editingTodo # NoTodo
     THEN LET id == objs[editingTodo].id
              r == MapTodos(id, [a \in 1..Len(objs) |-> ReplaceText(objs[a], editText)])
          IN /\ CommitCore(r.arrays, r.objs, r.sections,
                           [NoCall EXCEPT !.op = "update", !.modal = TRUE,
                                          !.id = id, !.text = editText])
             /\ isEditModalOpen' = FALSE
     ELSE /\ CommitCore(arrays, objs, state,
                        [NoCall EXCEPT !.op = "submit", !.modal = TRUE, !.text = editText])
          /\ isEditModalOpen' = isEditModalOpen

NextEdit ==
  \/ \E text \in Texts : handleAddTodo(text)
  \/ \E todoId \in TodoIds : handleToggleTodo(todoId)
  \/ \E todo \in TodoObjects : handleEditTodo(todo)
  \/ \E value \in EditValues : EditTodoModal_setText(value)
  \/ EditTodoModal_onClose
  \/ EditTodoModal_handleSubmit
  \/ Render

SpecEdit == Init /\ [][NextEdit]_vars

(***************************************************************************)
(* Two events handled in the same render.  Every handler reads `sections`  *)
(* from the closure of the render it was created in and calls setSections  *)
(* with a value, not with an updater (lines 70, 85, 101, 126): a handler   *)
(* called once more before React has rendered again starts from the same   *)
(* `sections`, and its setSections replaces the value the first call left. *)
(***************************************************************************)
\* an event was handled and React has not rendered yet
BeforeRender == last.op # "none" /\ calls < MaxCalls

handleAddTodo_beforeRender(text) ==
  /\ BeforeRender
  /\ AddTodoCall(text, FALSE)

handleToggleTodo_beforeRender(todoId) ==
  /\ BeforeRender
  /\ LET r == MapTodos(todoId, [a \in 1..Len(objs) |-> ToggleCompleted(objs[a])])
     IN Commit(r.arrays, r.objs, r.sections,
               [NoCall EXCEPT !.op = "toggle", !.id = todoId])
  /\ nextId' = nextId

NextSameRender ==
  \/ \E text \in Texts : handleAddTodo(text)
  \/ \E todoId \in TodoIds : handleToggleTodo(todoId)
  \/ \E text \in Texts : handleAddTodo_beforeRender(text)
  \/ \E todoId \in TodoIds : handleToggleTodo_beforeRender(todoId)
  \/ Render

SpecSameRender == Init /\ [][NextSameRender]_vars

(***************************************************************************)
(* The partition as values, and what the claims are stated over            *)
(***************************************************************************)
\* the partition React holds now
Cur == View(arrays, objs, state)

\* the partition the last handler was called on
Pre == prevView

\* what the snapshot the last handler closed over contains now
Snapshot == View(arrays, objs, sections)

BucketOrder == <<"DO_FIRST", "DO_LATER", "DELEGATE", "ELIMINATE">>

AllTodos(v) == Flatten([i \in 1..Len(v) |-> v[i].todos])

Ids(v) == { AllTodos(v)[k].id : k \in 1..Len(AllTodos(v)) }

Count(v) == Len(AllTodos(v))

IsBlank(text) == \A i \in 1..Len(text) : text[i] = " "

Called(op) == last.op = op

Known(droppableId) == droppableId \in TodoPriority

PosOf(droppableId) == CHOOSE i \in 1..Len(BucketOrder) : BucketOrder[i] = droppableId

RemoveAt(q, i) == [k \in 1..(Len(q) - 1) |-> IF k < i THEN q[k] ELSE q[k + 1]]

InsertAt(q, i, x) ==
  [k \in 1..(Len(q) + 1) |-> IF k < i THEN q[k] ELSE IF k = i THEN x ELSE q[k - 1]]

\* the last call was a move between two of the four buckets
MoveCalled ==
  /\ Called("move")
  /\ last.result.destination.present
  /\ Known(last.result.source.droppableId)
  /\ Known(last.result.destination.droppableId)

SrcLen == Len(Pre[PosOf(last.result.source.droppableId)].todos)

\* the length of the destination sequence once the moved task is lifted out
DstLenAfterRemoval ==
  IF last.result.destination.droppableId = last.result.source.droppableId
  THEN SrcLen - 1
  ELSE Len(Pre[PosOf(last.result.destination.droppableId)].todos)

SrcIndexValid ==
  last.result.source.index >= 0 /\ last.result.source.index < SrcLen

DstIndexValid ==
  last.result.destination.index >= 0
  /\ last.result.destination.index <= DstLenAfterRemoval

\* the move of section 4.2 on sequences of values
MoveOf(v, sb, si, db, di) ==
  LET T == v[PosOf(sb)].todos[si + 1]
      lifted == [v EXCEPT ![PosOf(sb)].todos = RemoveAt(@, si + 1)]
  IN [lifted EXCEPT ![PosOf(db)].todos = InsertAt(@, di + 1, [T EXCEPT !.priority = db])]

(***************************************************************************)
(* C1: after any sequence of operations the partition holds the four       *)
(* buckets DO_FIRST, DO_LATER, DELEGATE, ELIMINATE in that order, and      *)
(* every task's priority is the id of the bucket that contains it.         *)
(***************************************************************************)
C1_FourBucketsPriorityInSync ==
  /\ [i \in 1..Len(Cur) |-> Cur[i].id] = BucketOrder
  /\ \A i \in 1..Len(Cur) : \A k \in 1..Len(Cur[i].todos) :
        Cur[i].todos[k].priority = Cur[i].id

\* the last task of a bucket was dragged to another bucket
C1_Witness ==
  /\ MoveCalled /\ last.error = "none"
  /\ last.result.source.droppableId # last.result.destination.droppableId
  /\ SrcLen = 1
  /\ Cur[PosOf(last.result.source.droppableId)].todos = <<>>
  /\ Len(Cur[PosOf(last.result.destination.droppableId)].todos) >= 1

(***************************************************************************)
(* C2: with an id generator that never repeats, every task id occurs       *)
(* exactly once in the partition; a call other than delete loses no id and *)
(* delete loses at most the id it was given; only add brings in an id.     *)
(***************************************************************************)
C2_IdsUniqueAndStable ==
  /\ \A j, k \in 1..Count(Cur) : AllTodos(Cur)[j].id = AllTodos(Cur)[k].id => j = k
  /\ ~Called("none") =>
       /\ Ids(Pre) \ Ids(Cur) \subseteq (IF Called("delete") THEN {last.id} ELSE {})
       /\ Ids(Cur) \ Ids(Pre) \subseteq (IF Called("add") THEN {last.id} ELSE {})
       /\ Called("add") => last.id \notin Ids(Pre)

\* delete removed the task it was given while another task stayed
C2_Witness ==
  /\ Called("delete")
  /\ Ids(Pre) \ Ids(Cur) = {last.id}
  /\ Count(Cur) >= 1

(***************************************************************************)
(* C3: a snapshot obtained before an operation still has the same contents *)
(* after the operation.                                                    *)
(***************************************************************************)
C3_SnapshotKeepsContents ==
  ~Called("none") => Snapshot = Pre

C5_BadSourceIndexRejected ==
  (MoveCalled /\ ~SrcIndexValid) => (last.error # "none" /\ Cur = Pre)

(***************************************************************************)
(* C6: a move with destIndex equal to the length of the destination after  *)
(* removal appends the task without error, and a move with a larger        *)
(* destIndex raises an error and does not insert the task.                 *)
(***************************************************************************)
C6_DestIndexBoundary ==
  (MoveCalled /\ SrcIndexValid) =>
     /\ last.result.destination.index = DstLenAfterRemoval =>
          /\ last.error = "none"
          /\ Cur = MoveOf(Pre, last.result.source.droppableId, last.result.source.index,
                          last.result.destination.droppableId, DstLenAfterRemoval)
     /\ last.result.destination.index > DstLenAfterRemoval =>
          /\ last.error # "none"
          /\ Cur = Pre

C8_MoveIsRemoveThenInsert ==
  (MoveCalled /\ SrcIndexValid /\ DstIndexValid) =>
     /\ last.error = "none"
     /\ Cur = MoveOf(Pre, last.result.source.droppableId, last.result.source.index,
                     last.result.destination.droppableId, last.result.destination.index)

\* the first of several DO_FIRST tasks was moved to the front of DO_LATER
C8_Witness ==
  /\ MoveCalled /\ SrcIndexValid /\ DstIndexValid
  /\ last.result.source = [droppableId |-> "DO_FIRST", index |-> 0]
  /\ last.result.destination = [present |-> TRUE, droppableId |-> "DO_LATER", index |-> 0]
  /\ Len(Pre[1].todos) >= 2
  /\ Len(Cur[1].todos) = Len(Pre[1].todos) - 1
  /\ Cur[2].todos[1].id = Pre[1].todos[1].id

(***************************************************************************)
(* C9: the number of tasks summed over the buckets is the same before and  *)
(* after any move call, whatever bucket ids and indices it is given.       *)
(***************************************************************************)
C9_MoveKeepsCount ==
  Called("move") => Count(Cur) = Count(Pre)

\* a move with a negative source index and an out-of-range destination index
C9_Witness ==
  /\ MoveCalled /\ last.error = "none"
  /\ last.result.source.index < 0
  /\ last.result.destination.index > DstLenAfterRemoval
  /\ Cur # Pre

(***************************************************************************)
(* C10: add with a text that is not blank creates one task with a fresh    *)
(* id, completed = false and priority = DO_FIRST at the end of DO_FIRST;   *)
(* the tasks already there and the other buckets are unchanged.            *)
(***************************************************************************)
C10_AddAppendsToDoFirst ==
  (Called("add") /\ ~IsBlank(last.text)) =>
     /\ last.error = "none"
     /\ last.id \notin Ids(Pre)
     /\ Cur = [Pre EXCEPT ![1].todos =
                 Append(@, [id |-> last.id, text |-> last.text,
                            completed |-> FALSE, priority |-> "DO_FIRST"])]

\* a task was added while DO_FIRST already held a task
C10_Witness ==
  /\ Called("add") /\ ~IsBlank(last.text)
  /\ Len(Pre[1].todos) >= 1
  /\ Len(Cur[1].todos) = Len(Pre[1].todos) + 1
  /\ Cur[1].todos[Len(Cur[1].todos)].id = last.id

(***************************************************************************)
(* What the claims about two events in a row are stated over               *)
(***************************************************************************)
\* the event before the last one was the call op(id)
Before(op, id) == origin.call.op = op /\ origin.call.id = id

\* the partition the event before the last one was called on
Start == origin.view

\* the places (bucket, position) of the tasks of v with this id
PlacesOf(v, id) ==
  { p \in (1..Len(v)) \X (1..MaxTodos + 1) :
      p[2] <= Len(v[p[1]].todos) /\ v[p[1]].todos[p[2]].id = id }

\* v with `completed` negated in every task with this id
Flipped(v, id) ==
  [i \in 1..Len(v) |->
     [v[i] EXCEPT !.todos =
        [k \in 1..Len(v[i].todos) |->
           IF v[i].todos[k].id = id
           THEN [v[i].todos[k] EXCEPT !.completed = ~v[i].todos[k].completed]
           ELSE v[i].todos[k]]]]

(***************************************************************************)
(* C11: delete(id) of a task that is present removes exactly that task:    *)
(* the count drops by one and every other task keeps its bucket, its       *)
(* place in the order and its fields.  A second delete(id) right after     *)
(* changes nothing, the count included.                                    *)
(***************************************************************************)
C11_DeleteRemovesOnce ==
  Called("delete") =>
    /\ last.error = "none"
    /\ last.id \in Ids(Pre) =>
         /\ \E p \in PlacesOf(Pre, last.id) :
               Cur = [Pre EXCEPT ![p[1]].todos = RemoveAt(@, p[2])]
         /\ Count(Cur) = Count(Pre) - 1
    /\ Before("delete", last.id) =>
         /\ Cur = Pre
         /\ Count(Cur) = Count(Pre)

\* a task was deleted, and the same delete was sent once more
C11_Witness ==
  /\ Called("delete")
  /\ Before("delete", last.id)
  /\ last.id \in Ids(Start)
  /\ Count(Pre) = Count(Start) - 1
  /\ Cur = Pre

(***************************************************************************)
(* C12: toggleCompletion(id) negates `completed` of that task and nothing  *)
(* else: bucket, position and text of the task and every other task stay   *)
(* as they were.  Toggling the same id twice in a row gives back a         *)
(* partition equal in value to the one before the first toggle.            *)
(***************************************************************************)
C12_ToggleFlipsOnlyCompleted ==
  Called("toggle") =>
    /\ last.error = "none"
    /\ Cur = Flipped(Pre, last.id)
    /\ Before("toggle", last.id) => Cur = Start

\* a task was toggled twice in a row
C12_Witness ==
  /\ Called("toggle")
  /\ Before("toggle", last.id)
  /\ last.id \in Ids(Start)
  /\ Pre # Start
  /\ Cur = Start

(***************************************************************************)
(* C16: for two distinct buckets A and B with A not empty, move(A,0,B,0)   *)
(* followed at once by move(B,0,A,0) gives back the partition the first    *)
(* move started from: the order of A, the members of A and B and the       *)
(* priority of the moved task.                                             *)
(***************************************************************************)
\* the last two events were move(A,0,B,0) and then move(B,0,A,0)
ThereAndBack ==
  /\ MoveCalled
  /\ origin.call.op = "move"
  /\ origin.call.result.destination.present
  /\ origin.call.result.source.index = 0
  /\ origin.call.result.destination.index = 0
  /\ last.result.source.index = 0
  /\ last.result.destination.index = 0
  /\ last.result.source.droppableId = origin.call.result.destination.droppableId
  /\ last.result.destination.droppableId = origin.call.result.source.droppableId
  /\ last.result.source.droppableId # last.result.destination.droppableId
  /\ Start[PosOf(origin.call.result.source.droppableId)].todos # <<>>

C13_UnknownIdIsNoOp ==
  (last.op \in {"toggle", "delete", "update"} /\ last.id \notin Ids(Pre)) =>
     (last.error = "none" /\ Cur = Pre)

\* the text of a task no bucket holds was updated while other tasks exist
C13_Witness ==
  /\ Called("update")
  /\ last.id \notin Ids(Pre)
  /\ Count(Pre) >= 1
  /\ Cur = Pre

(***************************************************************************)
(* C14: a drag that ends with no destination (dropped outside every        *)
(* bucket) changes nothing.                                                *)
(***************************************************************************)
C14_NoDestinationNoChange ==
  (Called("move") /\ ~last.result.destination.present) =>
     /\ last.error = "none"
     /\ Cur = Pre
     /\ Snapshot = Pre

\* a task that exists was dragged and dropped outside every bucket
C14_Witness ==
  /\ Called("move") /\ ~last.result.destination.present
  /\ Known(last.result.source.droppableId)
  /\ SrcIndexValid
  /\ Cur = Pre

(***************************************************************************)
(* C15: move(b, i, b, i) with a valid index i, the drop of a task on the   *)
(* position it was lifted from, leaves the partition equal in value.       *)
(***************************************************************************)
SamePosition ==
  /\ MoveCalled
  /\ last.result.source.droppableId = last.result.destination.droppableId
  /\ last.result.source.index = last.result.destination.index
  /\ SrcIndexValid

C15_SamePositionMoveIsNoOp ==
  SamePosition => (last.error = "none" /\ Cur = Pre)

\* a task that has a task behind it was dropped where it was
C15_Witness ==
  /\ SamePosition
  /\ last.result.source.index + 1 < SrcLen
  /\ Cur = Pre

(***************************************************************************)
(* C17: updateText(id, newText) with a newText that is not empty changes   *)
(* the text of that task and nothing else.                                 *)
(***************************************************************************)
\* v with the text of every task with this id replaced
Retexted(v, id, text) ==
  [i \in 1..Len(v) |->
     [v[i] EXCEPT !.todos =
        [k \in 1..Len(v[i].todos) |->
           IF v[i].todos[k].id = id
           THEN [id |-> id, text |-> text,
                 completed |-> v[i].todos[k].completed,
                 priority |-> v[i].todos[k].priority]
           ELSE v[i].todos[k]]]]

C17_UpdateChangesOnlyText ==
  (Called("update") /\ Len(last.text) > 0) =>
     (last.error = "none" /\ Cur = Retexted(Pre, last.id, last.text))

\* a completed task got a new text
C17_Witness ==
  /\ Called("update") /\ Len(last.text) > 0
  /\ \E p \in PlacesOf(Pre, last.id) :
        /\ Pre[p[1]].todos[p[2]].completed
        /\ Pre[p[1]].todos[p[2]].text # last.text
        /\ Cur[p[1]].todos[p[2]].text = last.text

(***************************************************************************)
(* C18: every operation keeps the relative order of the tasks inside every *)
(* bucket, the one task it places aside: add, toggle, delete and update    *)
(* never reorder the tasks that stay, and a move keeps the relative order  *)
(* of all the other tasks of the source and of the destination.            *)
(***************************************************************************)
IdSeq(v, i) == [k \in 1..Len(v[i].todos) |-> v[i].todos[k].id]

Without(q, id) == SelectSeq(q, LAMBDA x : x # id)

\* the task with this id aside, every bucket lists the same ids in the same
\* order before and after the call
SameOrderBut(id) ==
  \A i \in 1..Len(Pre) : Without(IdSeq(Cur, i), id) = Without(IdSeq(Pre, i), id)

C19_EditModalPrefilled ==
  Called("edit") =>
    /\ isEditModalOpen
    /\ \A p \in PlacesOf(Cur, last.id) : editText = Cur[p[1]].todos[p[2]].text

(***************************************************************************)
(* C20: no update is lost.  When two operations, an add and then a toggle  *)
(* or two adds, are handled one after the other on the same rendered       *)
(* snapshot before React renders again, the partition that results shows   *)
(* the effect of both: the second is applied to what the first left.       *)
(***************************************************************************)
C20_NoUpdateLost ==
  /\ Called("add") =>
       Cur = [held EXCEPT ![1].todos =
                Append(@, [id |-> last.id, text |-> last.text,
                           completed |-> FALSE, priority |-> "DO_FIRST"])]
  /\ Called("toggle") => Cur = Flipped(held, last.id)

(***************************************************************************)
(* C21: the module-level initial partition, initialSections, is never      *)
(* modified by any sequence of operations: it keeps its four buckets       *)
(* DO_FIRST, DO_LATER, DELEGATE, ELIMINATE with empty task sequences, so   *)
(* a component mounted later in the same process starts with four empty    *)
(* buckets.                                                                *)
(***************************************************************************)
\* what a component mounted now would get from useState(initialSections)
Initial == View(arrays, objs, initialSections)

C21_InitialSectionsUntouched ==
  /\ [i \in 1..Len(Initial) |-> Initial[i].id] = BucketOrder
  /\ \A i \in 1..Len(Initial) : Initial[i].todos = <<>>

====
